---- MODULE Spec2Model ----
(***************************************************************************)
(* Structure estimators of src/estimators.py:                              *)
(*   TreeAugmentedNaiveBayesSearch.estimate   (Chow-Liu tree search)       *)
(*   BNAugmentedNaiveBayesSearch.estimate     (CBL2 draft/thicken/thin)    *)
(*   try_to_separate_a / try_to_separate_b    (separation tests)           *)
(*                                                                         *)
(* The observation table enters the algorithms only through the scorer:    *)
(* mutual_info_score(x, y) of two columns and, per conditioning column n,  *)
(* the weighted sum computed by conditional_mutual_info_score.  The table  *)
(* is therefore represented by its scores on an integer scale: mi for the  *)
(* pairwise scores and cmi for the per-conditioning-column scores.         *)
(***************************************************************************)
EXTENDS Integers, Sequences, FiniteSets, TLC

\* Largest score of the integer scale (scores range over 0..MaxMI).
MaxMI == 2
\* Largest threshold epsilon of the integer scale (epsilon ranges over 0..MaxEps).
MaxEps == 1
\* Cap on the iterations of one separation call that the model follows.
MaxIter == 8

class_node == "Class"
NoRoot == "None"

VARIABLES
    features,       \* df_features.columns: the feature column names, in order
    class_in_data,  \* whether class_node is a column of the table
    root_node,      \* TreeAugmentedNaiveBayesSearch.root_node (NoRoot when not supplied)
    mi,             \* mutual_info_score of each pair of feature columns
    cmi,            \* per-conditioning-column score of conditional_mutual_info_score
    epsilon,        \* BNAugmentedNaiveBayesSearch.epsilon
    pc,             \* position of the running estimate call
    raised,         \* the exception that ended the call ("none" while there is none)
    L,              \* the candidate list of (from_node, to_node, mi)
    graph,          \* the undirected working graph (nodes in order, adjacency in order)
    i,              \* loop index of the drafting and thickening loops (0-based)
    lenght,         \* the drafting loop's bound
    edges,          \* the edge list a thinning pass iterates over
    edge_ix,        \* position of a thinning pass in edges (1-based)
    sep,            \* the running try_to_separate_a / try_to_separate_b call
    digraph,        \* the directed graph under construction / returned
    eps_queue,      \* thresholds of the estimate calls still to be made on the table
    runs            \* drafted edge sets of the earlier estimate calls on the table

vars == <<features, class_in_data, root_node, mi, cmi, epsilon, pc, raised, L, graph,
          i, lenght, edges, edge_ix, sep, digraph, eps_queue, runs>>

----------------------------------------------------------------------------
\* Sequences and sets

Range(s) == {s[x] : x \in DOMAIN s}

RECURSIVE SumSeq(_)
SumSeq(s) == IF s = <<>> THEN 0 ELSE Head(s) + SumSeq(Tail(s))

RECURSIVE Flatten(_)
Flatten(ss) == IF ss = <<>> THEN <<>> ELSE Head(ss) \o Flatten(Tail(ss))

\* [n for n in c if n != node]
Without(c, node) == SelectSeq(c, LAMBDA n : n # node)

\* list.remove(x): drops the first occurrence
RemoveFirst(s, x) ==
    IF x \notin Range(s) THEN s
    ELSE LET p == CHOOSE q \in DOMAIN s : s[q] = x /\ \A r \in 1..(q - 1) : s[r] # x
         IN  SubSeq(s, 1, p - 1) \o SubSeq(s, p + 1, Len(s))

\* list.pop(p) for a 1-based position p
PopAt(s, p) == SubSeq(s, 1, p - 1) \o SubSeq(s, p + 1, Len(s))

----------------------------------------------------------------------------
\* The scorer

\* mutual_info_score(data[a], data[b])
MI(a, b) == mi[{a, b}]

\* conditional_mutual_info_score: the plain score for no conditioning column, else
\* the sum over the conditioning columns (a column listed twice counts twice)
conditional_mutual_info_score(xi, xj, c) ==
    IF Len(c) = 0 THEN MI(xi, xj)
    ELSE SumSeq([x \in 1..Len(c) |-> cmi[<<{xi, xj}, c[x]>>]])

----------------------------------------------------------------------------
\* networkx.Graph: nodes in insertion order, adjacency in insertion order

EmptyGraph(nodes) == [nodes |-> nodes, adj |-> [n \in Range(nodes) |-> <<>>]]

add_edge(g, u, v) ==
    IF v \in Range(g.adj[u]) THEN g
    ELSE [g EXCEPT !.adj = [n \in DOMAIN g.adj |->
              IF n = u THEN Append(g.adj[u], v)
              ELSE IF n = v THEN Append(g.adj[v], u)
              ELSE g.adj[n]]]

remove_edge(g, u, v) ==
    [g EXCEPT !.adj = [n \in DOMAIN g.adj |->
        IF n = u THEN Without(g.adj[u], v)
        ELSE IF n = v THEN Without(g.adj[v], u)
        ELSE g.adj[n]]]

neighbors(g, n) == g.adj[n]

\* list(graph.edges): every node in order, its not yet listed neighbours in order
RECURSIVE EdgeListFrom(_, _)
EdgeListFrom(g, p) ==
    IF p > Len(g.nodes) THEN <<>>
    ELSE LET n    == g.nodes[p]
             seen == {g.nodes[q] : q \in 1..(p - 1)}
             mine == SelectSeq(g.adj[n], LAMBDA x : x \notin seen)
         IN  [q \in 1..Len(mine) |-> <<n, mine[q]>>] \o EdgeListFrom(g, p + 1)

EdgeList(g) == EdgeListFrom(g, 1)

\* the edges as a set of unordered pairs
EdgeSet(g) == {{e[1], e[2]} : e \in Range(EdgeList(g))}

RECURSIVE ReachFrom(_, _)
ReachFrom(g, S) ==
    LET T == S \cup {x \in Range(g.nodes) : \E s \in S : x \in Range(g.adj[s])}
    IN  IF T = S THEN S ELSE ReachFrom(g, T)

\* nx.has_path(graph, a, b)
has_path(g, a, b) == b \in ReachFrom(g, {a})

\* nx.all_simple_paths(graph, source, target): depth first, children in adjacency order
RECURSIVE PathsFrom(_, _, _, _)
PathsFrom(g, path, target, p) ==
    LET kids == g.adj[path[Len(path)]]
    IN  IF p > Len(kids) THEN <<>>
        ELSE LET ch   == kids[p]
                 here == IF ch = target THEN <<Append(path, ch)>>
                         ELSE IF ch \in Range(path) THEN <<>>
                         ELSE PathsFrom(g, Append(path, ch), target, 1)
             IN  here \o PathsFrom(g, path, target, p + 1)

all_simple_paths(g, source, target) == PathsFrom(g, <<source>>, target, 1)

\* the nodes of path[1:-1] of every path, in the order the loops visit them
Intermediates(paths) ==
    Flatten([p \in 1..Len(paths) |-> SubSeq(paths[p], 2, Len(paths[p]) - 1)])

----------------------------------------------------------------------------
\* Sorting by decreasing score

\* the list sorted by increasing score (reverse=True forgotten)
RECURSIVE SortAscending(_)
SortAscending(s) ==
    IF s = <<>> THEN <<>>
    ELSE LET low == CHOOSE p \in DOMAIN s :
                        /\ \A q \in DOMAIN s : s[q][3] >= s[p][3]
                        /\ \A q \in 1..(p - 1) : s[q][3] > s[p][3]
         IN  <<s[low]>> \o SortAscending(PopAt(s, low))

\* list.sort(key=lambda tup: tup[2], reverse=True): stable, equal scores keep their order
RECURSIVE SortDescending(_)
SortDescending(s) ==
    IF s = <<>> THEN <<>>
    ELSE LET top == CHOOSE p \in DOMAIN s :
                        /\ \A q \in DOMAIN s : s[q][3] <= s[p][3]
                        /\ \A q \in 1..(p - 1) : s[q][3] < s[p][3]
         IN  <<s[top]>> \o SortDescending(PopAt(s, top))

\* the double loop over the feature columns: every pair i < j, in loop order
RECURSIVE PairsFrom(_, _, _)
PairsFrom(cols, a, b) ==
    IF a > Len(cols) THEN <<>>
    ELSE IF b > Len(cols) THEN PairsFrom(cols, a + 1, a + 2)
    ELSE <<<<cols[a], cols[b]>>>> \o PairsFrom(cols, a, b + 1)

ColumnPairs(cols) == PairsFrom(cols, 1, 2)

\* (from_node, to_node, mi) of every pair of feature columns
AllPairs(cols) ==
    LET ps == ColumnPairs(cols)
    IN  [q \in 1..Len(ps) |-> <<ps[q][1], ps[q][2], MI(ps[q][1], ps[q][2])>>]

----------------------------------------------------------------------------
\* BNAugmentedNaiveBayesSearch.estimate: validation and drafting

NoSep == [fn |-> "none", node1 |-> "", node2 |-> "", n1 |-> <<>>, n2 |-> <<>>,
          side |-> 0, c |-> <<>>, prev_c |-> <<>>, v |-> 0, skip_step |-> FALSE,
          n2_used |-> FALSE, branch |-> "", ret |-> "none", iter |-> 0]

\* lines 86-87
Validate ==
    /\ pc = "validate"
    /\ raised = "none"
    /\ IF class_in_data
       THEN pc' = "draft" /\ UNCHANGED raised
       ELSE raised' = "ValueError" /\ UNCHANGED pc
    /\ UNCHANGED <<features, class_in_data, root_node, mi, cmi, epsilon, L, graph, i,
                   lenght, edges, edge_ix, sep, digraph, eps_queue, runs>>

\* lines 98-106: the pairs whose score exceeds epsilon
Candidates(cols, eps) == SelectSeq(AllPairs(cols), LAMBDA t : t[3] > eps)

\* lines 91-118: build and sort the candidate list, pop and add the first two pairs
DraftStart ==
    /\ pc = "draft"
    /\ raised = "none"
    /\ LET sorted == SortDescending(Candidates(features, epsilon))
           g0     == EmptyGraph(features)
       IN  IF Len(sorted) < 2
           THEN \* L.pop(0) on an empty list
                /\ raised' = "IndexError"
                /\ L' = <<>>
                /\ graph' = IF Len(sorted) = 1
                            THEN add_edge(g0, sorted[1][1], sorted[1][2]) ELSE g0
                /\ UNCHANGED <<pc, i, lenght>>
           ELSE /\ graph' = add_edge(add_edge(g0, sorted[1][1], sorted[1][2]),
                                     sorted[2][1], sorted[2][2])
                /\ L' = SubSeq(sorted, 3, Len(sorted))
                /\ lenght' = Len(sorted) - 2
                /\ i' = 0
                /\ pc' = "scan"
                /\ UNCHANGED raised
    /\ UNCHANGED <<features, class_in_data, root_node, mi, cmi, epsilon, edges, edge_ix,
                   sep, digraph, eps_queue, runs>>

\* line 122: the early exit of the drafting loop
DraftBreak(g) == Cardinality(EdgeSet(g)) - 1 = Len(g.nodes)

\* every candidate is added (the path test dropped)
DraftAcceptsAlways(g, from_node, to_node) == TRUE

\* line 124: whether the candidate is added to the skeleton
DraftAccepts(g, from_node, to_node) == ~has_path(g, from_node, to_node)

\* lines 120-129: one iteration of the drafting loop
DraftScan ==
    /\ pc = "scan"
    /\ i < lenght
    /\ ~DraftBreak(graph)
    /\ LET from_node == L[i + 1][1]
           to_node   == L[i + 1][2]
       IN  IF DraftAccepts(graph, from_node, to_node)
           THEN /\ graph' = add_edge(graph, from_node, to_node)
                /\ L' = PopAt(L, i + 1)
                /\ lenght' = lenght - 1
                /\ i' = i
           ELSE /\ i' = i + 1
                /\ UNCHANGED <<graph, L, lenght>>
    /\ UNCHANGED <<features, class_in_data, root_node, mi, cmi, epsilon, pc, raised,
                   edges, edge_ix, sep, digraph, eps_queue, runs>>

\* lines 120, 122-123: the drafting loop ends
DraftEnd ==
    /\ pc = "scan"
    /\ (i >= lenght \/ DraftBreak(graph))
    /\ pc' = "thicken"
    /\ i' = 0
    /\ UNCHANGED <<features, class_in_data, root_node, mi, cmi, epsilon, raised, L,
                   graph, lenght, edges, edge_ix, sep, digraph, eps_queue, runs>>

\* lines 70-79: another search on the same table with the next threshold
EstimateAgain ==
    /\ pc = "thicken"
    /\ eps_queue # <<>>
    /\ runs' = Append(runs, EdgeSet(graph))
    /\ epsilon' = Head(eps_queue)
    /\ eps_queue' = Tail(eps_queue)
    /\ pc' = "validate"
    /\ L' = <<>>
    /\ graph' = EmptyGraph(<<>>)
    /\ i' = 0
    /\ lenght' = 0
    /\ UNCHANGED <<features, class_in_data, root_node, mi, cmi, raised, edges, edge_ix,
                   sep, digraph>>

----------------------------------------------------------------------------
\* try_to_separate_a

\* lines 166-186: the two neighbour lists, the shorter one first
SepAEnter(g, node1, node2) ==
    LET node1_neighbors == Range(neighbors(g, node1))
        node2_neighbors == Range(neighbors(g, node2))
        inter == Intermediates(all_simple_paths(g, node1, node2))
        a == SelectSeq(inter, LAMBDA node : node \in node1_neighbors)
        b == SelectSeq(inter, LAMBDA node : node \in node2_neighbors)
        swap == Len(a) > Len(b)
        n1 == IF swap THEN b ELSE a
        n2 == IF swap THEN a ELSE b
    IN  [NoSep EXCEPT !.fn = "a", !.node1 = node1, !.node2 = node2,
                      !.n1 = n1, !.n2 = n2, !.side = 1, !.c = n1, !.prev_c = n1]

\* np.argmin: the first position of the smallest value
ArgMin(values) ==
    CHOOSE p \in DOMAIN values :
        /\ \A q \in DOMAIN values : values[p] <= values[q]
        /\ \A q \in 1..(p - 1) : values[q] > values[p]

\* lines 216-226: whether the best single removal is rejected as no improvement
SepAWorse(vm, v) == vm > v

\* lines 187-228: one iteration of the loop of try_to_separate_a on graph g
SepAIteration(s, g) ==
    LET v1   == IF ~s.skip_step
                THEN conditional_mutual_info_score(s.node1, s.node2, s.c)
                ELSE s.v
        base == [s EXCEPT !.v = v1, !.iter = s.iter + 1, !.prev_c = s.c]
        \* lines 196-200 and 217-221
        other(br) == IF ~s.n2_used
                     THEN [base EXCEPT !.c = s.n2, !.n2_used = TRUE, !.side = 2,
                                       !.skip_step = FALSE, !.branch = br]
                     ELSE [base EXCEPT !.ret = "False", !.branch = br]
    IN  IF ~s.skip_step /\ v1 < epsilon
        THEN [base EXCEPT !.ret = "True", !.branch = "test"]
        ELSE IF Len(s.c) = 1
        THEN other("single")
        ELSE LET conditions == [p \in 1..Len(g.nodes) |-> Without(s.c, g.nodes[p])]
                 values == [p \in 1..Len(g.nodes) |->
                     conditional_mutual_info_score(s.node1, s.node2, conditions[p])]
                 min_index == ArgMin(values)
                 vm == values[min_index]
                 cm == conditions[min_index]
             IN  IF vm < epsilon
                 THEN [base EXCEPT !.ret = "True", !.branch = "removal"]
                 ELSE IF SepAWorse(vm, v1)
                 THEN other("switch")
                 ELSE [base EXCEPT !.v = vm, !.c = cm, !.skip_step = TRUE,
                                   !.branch = "shrink"]

SepAIter ==
    /\ sep.fn = "a"
    /\ sep.ret = "none"
    /\ sep.iter < MaxIter
    /\ sep' = SepAIteration(sep, graph)
    /\ UNCHANGED <<features, class_in_data, root_node, mi, cmi, epsilon, pc, raised, L,
                   graph, i, lenght, edges, edge_ix, digraph, eps_queue, runs>>

----------------------------------------------------------------------------
\* try_to_separate_b

\* Python's == between a node name and a list of node names: never equal
NameEqualsList(node, lst) == FALSE

\* `node in n1_neighbors`, where n1_neighbors is a list of neighbour lists
InNeighborLists(node, lists) == \E p \in DOMAIN lists : NameEqualsList(node, lists[p])

\* lines 245-257: a prime list
PrimeList(g, inter, n) ==
    LET n_neighbors == [p \in 1..Len(n) |-> neighbors(g, n[p])]
    IN  SelectSeq(inter, LAMBDA node :
            InNeighborLists(node, n_neighbors) /\ node \notin Range(n))

\* lines 232-264: the initial conditioning list
SepBEnter(g, node1, node2) ==
    LET node1_neighbors == Range(neighbors(g, node1))
        node2_neighbors == Range(neighbors(g, node2))
        inter == Intermediates(all_simple_paths(g, node1, node2))
        n1 == SelectSeq(inter, LAMBDA node : node \in node1_neighbors)
        n2 == SelectSeq(inter, LAMBDA node : node \in node2_neighbors)
        n1_prime == PrimeList(g, inter, n1)
        n2_prime == PrimeList(g, inter, n2)
        first == Len(n1) + Len(n1_prime) < Len(n2) + Len(n2_prime)
        c == IF first THEN n1 \o n1_prime ELSE n2 \o n2_prime
    IN  [NoSep EXCEPT !.fn = "b", !.node1 = node1, !.node2 = node2,
                      !.n1 = n1, !.n2 = n2, !.side = IF first THEN 1 ELSE 2,
                      !.c = c, !.prev_c = c]

\* lines 273-282: the loop over the members of c, from position p on
RECURSIVE SepBScan(_, _, _, _)
SepBScan(s, v, p, c_prime) ==
    IF p > Len(s.c) THEN [hit |-> FALSE, c_prime |-> c_prime]
    ELSE LET x  == s.c[p]
             vi == conditional_mutual_info_score(s.node1, s.node2, Without(s.c, x))
         IN  IF vi < epsilon THEN [hit |-> TRUE, c_prime |-> c_prime]
             ELSE IF vi <= v + epsilon /\ x \in Range(c_prime)
             THEN SepBScan(s, v, p + 1, RemoveFirst(c_prime, x))
             ELSE SepBScan(s, v, p + 1, c_prime)

\* lines 266-287: one iteration of the loop of try_to_separate_b
SepBIteration(s) ==
    LET v    == conditional_mutual_info_score(s.node1, s.node2, s.c)
        base == [s EXCEPT !.v = v, !.iter = s.iter + 1, !.prev_c = s.c]
        scan == SepBScan(s, v, 1, s.c)
    IN  IF v < epsilon THEN [base EXCEPT !.ret = "True", !.branch = "test"]
        ELSE IF scan.hit THEN [base EXCEPT !.ret = "True", !.branch = "removal"]
        ELSE IF Len(scan.c_prime) < Len(s.c)
        THEN [base EXCEPT !.c = scan.c_prime, !.branch = "shrink"]
        ELSE [base EXCEPT !.ret = "False", !.branch = "fail"]

SepBIter ==
    /\ sep.fn = "b"
    /\ sep.ret = "none"
    /\ sep.iter < MaxIter
    /\ sep' = SepBIteration(sep)
    /\ UNCHANGED <<features, class_in_data, root_node, mi, cmi, epsilon, pc, raised, L,
                   graph, i, lenght, edges, edge_ix, digraph, eps_queue, runs>>

----------------------------------------------------------------------------
\* BNAugmentedNaiveBayesSearch.estimate: thickening, thinning, orientation

\* lines 133-135: the next candidate is handed to try_to_separate_a
ThickenCall ==
    /\ pc = "thicken"
    /\ sep.fn = "none"
    /\ i < Len(L)
    /\ sep' = SepAEnter(graph, L[i + 1][1], L[i + 1][2])
    /\ UNCHANGED <<features, class_in_data, root_node, mi, cmi, epsilon, pc, raised, L,
                   graph, i, lenght, edges, edge_ix, digraph, eps_queue, runs>>

\* lines 135-136: the edge is added when the separation failed
ThickenReturn ==
    /\ pc = "thicken"
    /\ sep.fn = "a"
    /\ sep.ret # "none"
    /\ graph' = IF sep.ret = "False" THEN add_edge(graph, sep.node1, sep.node2) ELSE graph
    /\ i' = i + 1
    /\ sep' = NoSep
    /\ UNCHANGED <<features, class_in_data, root_node, mi, cmi, epsilon, pc, raised, L,
                   lenght, edges, edge_ix, digraph, eps_queue, runs>>

\* lines 133, 140: thickening is over, the first thinning pass lists the edges
ThickenEnd ==
    /\ pc = "thicken"
    /\ sep.fn = "none"
    /\ i >= Len(L)
    /\ pc' = "thinA"
    /\ edges' = EdgeList(graph)
    /\ edge_ix' = 1
    /\ UNCHANGED <<features, class_in_data, root_node, mi, cmi, epsilon, raised, L,
                   graph, i, lenght, sep, digraph, eps_queue, runs>>

\* lines 144 and 152: the test is made only when the endpoints are still connected
StillConnected(g, from_node, to_node) == has_path(g, from_node, to_node)

\* lines 141-145: the edge is removed; the endpoints, if still connected, are tested
ThinACall ==
    /\ pc = "thinA"
    /\ sep.fn = "none"
    /\ edge_ix <= Len(edges)
    /\ LET from_node == edges[edge_ix][1]
           to_node   == edges[edge_ix][2]
           g         == remove_edge(graph, from_node, to_node)
       IN  /\ graph' = g
           /\ IF StillConnected(g, from_node, to_node)
              THEN sep' = SepAEnter(g, from_node, to_node) /\ UNCHANGED edge_ix
              ELSE edge_ix' = edge_ix + 1 /\ UNCHANGED sep
    /\ UNCHANGED <<features, class_in_data, root_node, mi, cmi, epsilon, pc, raised, L,
                   i, lenght, edges, digraph, eps_queue, runs>>

\* lines 145-146: the edge is put back when the separation failed
ThinAReturn ==
    /\ pc = "thinA"
    /\ sep.fn = "a"
    /\ sep.ret # "none"
    /\ graph' = IF sep.ret = "False" THEN add_edge(graph, sep.node1, sep.node2) ELSE graph
    /\ edge_ix' = edge_ix + 1
    /\ sep' = NoSep
    /\ UNCHANGED <<features, class_in_data, root_node, mi, cmi, epsilon, pc, raised, L,
                   i, lenght, edges, digraph, eps_queue, runs>>

\* lines 141, 148: the first pass is over, the second lists the edges
ThinAEnd ==
    /\ pc = "thinA"
    /\ sep.fn = "none"
    /\ edge_ix > Len(edges)
    /\ pc' = "thinB"
    /\ edges' = EdgeList(graph)
    /\ edge_ix' = 1
    /\ UNCHANGED <<features, class_in_data, root_node, mi, cmi, epsilon, raised, L,
                   graph, i, lenght, sep, digraph, eps_queue, runs>>

\* lines 149-153
ThinBCall ==
    /\ pc = "thinB"
    /\ sep.fn = "none"
    /\ edge_ix <= Len(edges)
    /\ LET from_node == edges[edge_ix][1]
           to_node   == edges[edge_ix][2]
           g         == remove_edge(graph, from_node, to_node)
       IN  /\ graph' = g
           /\ IF StillConnected(g, from_node, to_node)
              THEN sep' = SepBEnter(g, from_node, to_node) /\ UNCHANGED edge_ix
              ELSE edge_ix' = edge_ix + 1 /\ UNCHANGED sep
    /\ UNCHANGED <<features, class_in_data, root_node, mi, cmi, epsilon, pc, raised, L,
                   i, lenght, edges, digraph, eps_queue, runs>>

\* lines 153-154
ThinBReturn ==
    /\ pc = "thinB"
    /\ sep.fn = "b"
    /\ sep.ret # "none"
    /\ graph' = IF sep.ret = "False" THEN add_edge(graph, sep.node1, sep.node2) ELSE graph
    /\ edge_ix' = edge_ix + 1
    /\ sep' = NoSep
    /\ UNCHANGED <<features, class_in_data, root_node, mi, cmi, epsilon, pc, raised, L,
                   i, lenght, edges, digraph, eps_queue, runs>>

\* line 149: the second pass is over
ThinBEnd ==
    /\ pc = "thinB"
    /\ sep.fn = "none"
    /\ edge_ix > Len(edges)
    /\ pc' = "orient"
    /\ UNCHANGED <<features, class_in_data, root_node, mi, cmi, epsilon, raised, L,
                   graph, i, lenght, edges, edge_ix, sep, digraph, eps_queue, runs>>

\* nx.dfs_edges: depth first from node, children in adjacency order from position p
RECURSIVE DfsVisit(_, _, _, _)
DfsVisit(g, node, p, st) ==
    IF p > Len(g.adj[node]) THEN st
    ELSE LET ch == g.adj[node][p]
         IN  IF ch \in st.visited THEN DfsVisit(g, node, p + 1, st)
             ELSE DfsVisit(g, node, p + 1,
                      DfsVisit(g, ch, 1, [visited |-> st.visited \cup {ch},
                                          edges   |-> st.edges \cup {<<node, ch>>}]))

\* nx.DiGraph(graph): every skeleton edge in both directions
dfs_tree_all_edges(g, source) ==
    [nodes |-> Range(g.nodes),
     edges |-> {<<e[1], e[2]>> : e \in Range(EdgeList(g))}
               \cup {<<e[2], e[1]>> : e \in Range(EdgeList(g))}]

\* nx.dfs_tree(graph, source)
dfs_tree(g, source) ==
    LET r == DfsVisit(g, source, 1, [visited |-> {source}, edges |-> {}])
    IN  [nodes |-> r.visited, edges |-> r.edges]

\* lines 161-162 and 62-63: digraph.add_edge(class_node, node) for every feature column
AttachClass(d, cols) ==
    [nodes |-> d.nodes \cup {class_node} \cup Range(cols),
     edges |-> d.edges \cup {<<class_node, cols[p]>> : p \in DOMAIN cols}]

\* the traversal started at the last feature column
TraversalStartLast(cols) == cols[Len(cols)]

\* line 159: df_features.columns[0]
TraversalStart(cols) == cols[1]

\* line 159
Orient ==
    /\ pc = "orient"
    /\ digraph' = dfs_tree(graph, TraversalStart(features))
    /\ pc' = "attach"
    /\ UNCHANGED <<features, class_in_data, root_node, mi, cmi, epsilon, raised, L,
                   graph, i, lenght, edges, edge_ix, sep, eps_queue, runs>>

\* lines 161-164
Attach ==
    /\ pc = "attach"
    /\ digraph' = AttachClass(digraph, features)
    /\ pc' = "done"
    /\ UNCHANGED <<features, class_in_data, root_node, mi, cmi, epsilon, raised, L,
                   graph, i, lenght, edges, edge_ix, sep, eps_queue, runs>>

----------------------------------------------------------------------------
\* TreeAugmentedNaiveBayesSearch.estimate

\* data.columns
Columns == Range(features) \cup (IF class_in_data THEN {class_node} ELSE {})

\* lines 36-40
TanValidate ==
    /\ pc = "tan_validate"
    /\ raised = "none"
    /\ IF class_node \notin Columns
       THEN raised' = "ValueError" /\ UNCHANGED pc
       ELSE IF root_node # NoRoot /\ root_node \notin Columns
       THEN raised' = "ValueError" /\ UNCHANGED pc
       ELSE pc' = "tan_build" /\ UNCHANGED raised
    /\ UNCHANGED <<features, class_in_data, root_node, mi, cmi, epsilon, L, graph, i,
                   lenght, edges, edge_ix, sep, digraph, eps_queue, runs>>

\* the heaviest edges are taken until the tree has enough, cycle or not
KruskalAcceptsAnyEdge(t, u, v) == Cardinality(EdgeSet(t)) < Len(t.nodes) - 1

\* Kruskal's test: the edge joins two components of the tree built so far
KruskalAccepts(t, u, v) == ~has_path(t, u, v)

RECURSIVE Kruskal(_, _, _)
Kruskal(t, es, p) ==
    IF p > Len(es) THEN t
    ELSE Kruskal(IF KruskalAccepts(t, es[p][1], es[p][2])
                 THEN add_edge(t, es[p][1], es[p][2]) ELSE t, es, p + 1)

\* lines 42-55: nx.maximum_spanning_tree of the complete graph weighted by the scores
\* (Kruskal over the edges by decreasing weight, equal weights in edge order)
maximum_spanning_tree(cols) ==
    Kruskal(EmptyGraph(cols), SortDescending(AllPairs(cols)), 1)

\* lines 42-55
TanBuild ==
    /\ pc = "tan_build"
    /\ graph' = maximum_spanning_tree(features)
    /\ pc' = "tan_orient"
    /\ UNCHANGED <<features, class_in_data, root_node, mi, cmi, epsilon, raised, L, i,
                   lenght, edges, edge_ix, sep, digraph, eps_queue, runs>>

\* nx.bfs_edges: breadth first from the queue's head, children in adjacency order
RECURSIVE BfsFrom(_, _, _, _)
BfsFrom(g, queue, visited, es) ==
    IF queue = <<>> THEN [nodes |-> visited, edges |-> es]
    ELSE LET n   == Head(queue)
             new == SelectSeq(g.adj[n], LAMBDA x : x \notin visited)
         IN  BfsFrom(g, Tail(queue) \o new, visited \cup Range(new),
                     es \cup {<<n, new[q]>> : q \in DOMAIN new})

\* nx.bfs_tree(tree, source)
bfs_tree(g, source) == BfsFrom(g, <<source>>, {source}, {})

\* lines 57-60: the tree is rooted; a root that is no node of the tree, or no first
\* feature column to take as the root, ends the call with an exception
TanOrient ==
    /\ pc = "tan_orient"
    /\ raised = "none"
    /\ IF root_node # NoRoot
       THEN IF root_node \in Range(graph.nodes)
            THEN /\ digraph' = bfs_tree(graph, root_node)
                 /\ pc' = "tan_attach"
                 /\ UNCHANGED raised
            ELSE /\ raised' = "NetworkXError"
                 /\ UNCHANGED <<pc, digraph>>
       ELSE IF Len(features) = 0
            THEN /\ raised' = "IndexError"
                 /\ UNCHANGED <<pc, digraph>>
            ELSE /\ digraph' = bfs_tree(graph, features[1])
                 /\ pc' = "tan_attach"
                 /\ UNCHANGED raised
    /\ UNCHANGED <<features, class_in_data, root_node, mi, cmi, epsilon, L, graph, i,
                   lenght, edges, edge_ix, sep, eps_queue, runs>>

\* lines 62-65
TanAttach ==
    /\ pc = "tan_attach"
    /\ digraph' = AttachClass(digraph, features)
    /\ pc' = "tan_done"
    /\ UNCHANGED <<features, class_in_data, root_node, mi, cmi, epsilon, raised, L,
                   graph, i, lenght, edges, edge_ix, sep, eps_queue, runs>>

----------------------------------------------------------------------------
\* Tables

Pairs2(S) == {p \in SUBSET S : Cardinality(p) = 2}
CondKeys(S) == {x \in Pairs2(S) \X S : x[2] \notin x[1]}

DraftColumns == <<"A", "B", "C", "D">>
PipelineColumns == <<"A", "B", "C">>
\* a column of independent noise: score 0 with every column, and no effect as a
\* conditioning column
Noise == "N"

Idle ==
    /\ raised = "none"
    /\ L = <<>>
    /\ graph = EmptyGraph(<<>>)
    /\ i = 0
    /\ lenght = 0
    /\ edges = <<>>
    /\ edge_ix = 0
    /\ sep = NoSep
    /\ digraph = [nodes |-> {}, edges |-> {}]
    /\ runs = <<>>

\* One constraint-based search.  The table has up to three feature columns with any
\* scores, and possibly a noise column before or after them.  A table without the
\* class column is rejected before any score is read: it is given all-zero scores.
Init ==
    /\ \E nF \in 0..Len(PipelineColumns), layout \in {"plain", "noise_last", "noise_first"} :
          LET base == SubSeq(PipelineColumns, 1, nF)
          IN  /\ features = CASE layout = "plain" -> base
                              [] layout = "noise_last" -> Append(base, Noise)
                              [] layout = "noise_first" -> <<Noise>> \o base
              /\ \E m0 \in [Pairs2(Range(base)) -> 0..MaxMI],
                    c0 \in [CondKeys(Range(base)) -> 0..MaxMI] :
                    /\ mi = [p \in Pairs2(Range(features)) |->
                                IF Noise \in p THEN 0 ELSE m0[p]]
                    /\ cmi = [x \in CondKeys(Range(features)) |->
                                IF Noise \in x[1] THEN 0
                                ELSE IF x[2] = Noise THEN m0[x[1]]
                                ELSE c0[x]]
    /\ class_in_data \in BOOLEAN
    /\ class_in_data \/ ((\A p \in DOMAIN mi : mi[p] = 0) /\ (\A x \in DOMAIN cmi : cmi[x] = 0))
    /\ root_node = NoRoot
    /\ epsilon \in 0..MaxEps
    /\ eps_queue = <<>>
    /\ pc = "validate"
    /\ Idle

Next ==
    \/ Validate \/ DraftStart \/ DraftScan \/ DraftEnd
    \/ ThickenCall \/ ThickenReturn \/ ThickenEnd
    \/ ThinACall \/ ThinAReturn \/ ThinAEnd
    \/ ThinBCall \/ ThinBReturn \/ ThinBEnd
    \/ SepAIter \/ SepBIter
    \/ Orient \/ Attach

Spec == Init /\ [][Next]_vars

\* Two searches on one table, the second with a threshold at least the first's:
\* the drafting stage of each is followed.
InitDraft ==
    /\ \E nF \in 0..Len(DraftColumns) : features = SubSeq(DraftColumns, 1, nF)
    /\ class_in_data = TRUE
    /\ root_node = NoRoot
    /\ mi \in [Pairs2(Range(features)) -> 0..MaxMI]
    /\ cmi = [x \in CondKeys(Range(features)) |-> 0]
    /\ \E e1 \in 0..MaxEps, e2 \in 0..MaxEps :
          /\ e1 <= e2
          /\ epsilon = e1
          /\ eps_queue = <<e2>>
    /\ pc = "validate"
    /\ Idle

NextDraft == Validate \/ DraftStart \/ DraftScan \/ DraftEnd \/ EstimateAgain

SpecDraft == InitDraft /\ [][NextDraft]_vars

\* One tree search: any scores, the root not supplied, or any column name (one that
\* is no column of the table included).
InitTan ==
    /\ \E nF \in 0..Len(DraftColumns) : features = SubSeq(DraftColumns, 1, nF)
    /\ class_in_data \in BOOLEAN
    /\ root_node \in {NoRoot, class_node, "Missing"} \cup Range(features)
    /\ mi \in [Pairs2(Range(features)) -> 0..MaxMI]
    /\ cmi = [x \in CondKeys(Range(features)) |-> 0]
    /\ epsilon = 0
    /\ eps_queue = <<>>
    /\ pc = "tan_validate"
    /\ Idle

NextTan == TanValidate \/ TanBuild \/ TanOrient \/ TanAttach

SpecTan == InitTan /\ [][NextTan]_vars

\* the graph on cols with the edges S, added in the order of the pairs of cols
RECURSIVE GraphFrom(_, _, _)
GraphFrom(g, ps, S) ==
    IF ps = <<>> THEN g
    ELSE GraphFrom(IF {Head(ps)[1], Head(ps)[2]} \in S
                   THEN add_edge(g, Head(ps)[1], Head(ps)[2]) ELSE g, Tail(ps), S)

\* One separation test, called as estimate calls it: on a graph in which node1 and
\* node2 are not adjacent but connected, for a pair whose score exceeds epsilon,
\* with a positive epsilon.
InitSep(start) ==
    /\ features = DraftColumns
    /\ class_in_data = TRUE
    /\ root_node = NoRoot
    /\ epsilon \in 1..MaxEps
    /\ eps_queue = <<>>
    /\ \E a \in 1..Len(features), b \in 1..Len(features) :
          /\ a < b
          /\ LET pair == {features[a], features[b]}
                 zero == [p \in Pairs2(Range(features)) |-> 0]
             IN  \E S \in SUBSET (Pairs2(Range(features)) \ {pair}) :
                    /\ graph = GraphFrom(EmptyGraph(features), ColumnPairs(features), S)
                    /\ has_path(graph, features[a], features[b])
                    /\ \E m \in 0..MaxMI :
                          /\ m > epsilon
                          /\ mi = [p \in Pairs2(Range(features)) |->
                                      IF p = pair THEN m ELSE IF p \in S THEN MaxMI ELSE 0]
                    /\ \E cs \in [Range(features) \ pair -> 0..MaxMI] :
                          cmi = [x \in CondKeys(Range(features)) |->
                                    IF x[1] = pair THEN cs[x[2]] ELSE 0]
          /\ edges = <<<<features[a], features[b]>>>>
    /\ pc = start
    /\ raised = "none"
    /\ L = <<>>
    /\ i = 0
    /\ lenght = 0
    /\ edge_ix = 1
    /\ sep = NoSep
    /\ digraph = [nodes |-> {}, edges |-> {}]
    /\ runs = <<>>

\* lines 166-186: try_to_separate_a(graph, node1, node2) is entered
CallA ==
    /\ pc = "call_a"
    /\ sep' = SepAEnter(graph, edges[edge_ix][1], edges[edge_ix][2])
    /\ pc' = "in_a"
    /\ UNCHANGED <<features, class_in_data, root_node, mi, cmi, epsilon, raised, L,
                   graph, i, lenght, edges, edge_ix, digraph, eps_queue, runs>>

\* lines 232-264: try_to_separate_b(graph, node1, node2) is entered
CallB ==
    /\ pc = "call_b"
    /\ sep' = SepBEnter(graph, edges[edge_ix][1], edges[edge_ix][2])
    /\ pc' = "in_b"
    /\ UNCHANGED <<features, class_in_data, root_node, mi, cmi, epsilon, raised, L,
                   graph, i, lenght, edges, edge_ix, digraph, eps_queue, runs>>

InitSepA == InitSep("call_a")
NextSepA == CallA \/ SepAIter
SpecSepA == InitSepA /\ [][NextSepA]_vars

InitSepB == InitSep("call_b")
NextSepB == CallB \/ SepBIter
SpecSepB == InitSepB /\ [][NextSepB]_vars

----------------------------------------------------------------------------
\* Properties

\* the edges of a directed graph that do not leave the class node
FeatureEdges(d) == {e \in d.edges : e[1] # class_node}

RECURSIVE DReach(_, _)
DReach(es, S) ==
    LET T == S \cup {e[2] : e \in {x \in es : x[1] \in S}}
    IN  IF T = S THEN S ELSE DReach(es, T)

\* the nodes reached from n along at least one edge of es
Descendants(es, n) == DReach(es, {e[2] : e \in {x \in es : x[1] = n}})

DigraphAcyclic(d) == \A n \in d.nodes : n \notin Descendants(d.edges, n)

Parents(es, n) == {e[1] : e \in {x \in es : x[2] = n}}

Returned == pc = "done"

\* C1: a DAG returned by BNAugmentedNaiveBayesSearch.estimate has no directed cycle
\* and no edge into the class node.
C1_ReturnedDagAcyclicClassSource ==
    Returned =>
        /\ DigraphAcyclic(digraph)
        /\ \A e \in digraph.edges : e[2] # class_node

\* a search returns with a cyclic skeleton (a triangle) turned into a tree
C1_Witness ==
    /\ Returned
    /\ Cardinality(EdgeSet(graph)) = 3
    /\ Cardinality(FeatureEdges(digraph)) = 2

\* C2: a DAG returned by TreeAugmentedNaiveBayesSearch.estimate for F >= 1 feature
\* columns has the class node with in-degree 0 and out-degree F, and its feature
\* edges form a tree over the F feature columns: F - 1 edges, connected, acyclic.
C2_TanShape ==
    (pc = "tan_done" /\ Len(features) >= 1) =>
        LET F  == Len(features)
            fe == FeatureEdges(digraph)
            both == fe \cup {<<e[2], e[1]>> : e \in fe}
        IN  /\ Parents(digraph.edges, class_node) = {}
            /\ Cardinality({e \in digraph.edges : e[1] = class_node}) = F
            /\ {e[2] : e \in {x \in digraph.edges : x[1] = class_node}} = Range(features)
            /\ \A e \in fe : e[1] \in Range(features) /\ e[2] \in Range(features)
            /\ Cardinality(fe) = F - 1
            /\ Cardinality({{e[1], e[2]} : e \in fe}) = F - 1
            /\ DReach(both, {features[1]}) = Range(features)
            /\ DigraphAcyclic(digraph)

\* a tree search over four features returns, rooted at a supplied root
C2_Witness ==
    /\ pc = "tan_done"
    /\ Len(features) = 4
    /\ root_node = "C"
    /\ \E p \in DOMAIN mi : mi[p] # 0

\* the table of the end-to-end scenario: A and B strongly dependent, C noise
C3_Scenario ==
    /\ features = PipelineColumns
    /\ class_in_data
    /\ epsilon >= 1
    /\ MI("A", "B") = MaxMI
    /\ MI("A", "B") > epsilon
    /\ MI("A", "C") < MI("A", "B")
    /\ MI("B", "C") < MI("A", "B")
    /\ MI("A", "C") <= epsilon
    /\ MI("B", "C") <= epsilon

Joined(d, a, b) == <<a, b>> \in d.edges \/ <<b, a>> \in d.edges

\* C3: on the scenario's table the search returns a DAG in which A and B are joined
\* by a feature edge and C is joined to neither.
C3_ABSurvivesCDropped ==
    (C3_Scenario /\ (Returned \/ raised # "none")) =>
        /\ Returned
        /\ Joined(digraph, "A", "B")
        /\ ~Joined(digraph, "A", "C")
        /\ ~Joined(digraph, "B", "C")

\* C4: a search on a table that has the class column is not ended between stages
\* by an exception, and no separation test of a stage runs without end.
C4_NoStageAbortsOrHangs ==
    class_in_data =>
        /\ raised = "none"
        /\ (sep.fn # "none" /\ sep.ret = "none") => sep.iter < MaxIter

\* the first feature column's connected component in the final skeleton
RootComponent == ReachFrom(graph, {features[1]})

\* C5 as stated: in a returned DAG every feature column but the first has exactly
\* one feature parent and is reached from the first along feature edges.
C5_SpanningArborescence ==
    Returned =>
        \A f \in Range(features) \ {features[1]} :
            /\ Cardinality(Parents(FeatureEdges(digraph), f)) = 1
            /\ f \in Descendants(FeatureEdges(digraph), features[1])

\* C5 amended: the feature edges of a returned DAG form an arborescence rooted at
\* the first feature column that spans the first feature column's connected
\* component of the final skeleton; a feature column outside that component has no
\* feature edge at all.
C5_ArborescenceOfRootComponent ==
    Returned =>
        LET fe == FeatureEdges(digraph)
        IN  /\ Parents(fe, features[1]) = {}
            /\ \A f \in RootComponent \ {features[1]} :
                  /\ Cardinality(Parents(fe, f)) = 1
                  /\ f \in Descendants(fe, features[1])
                  /\ \A q \in Parents(fe, f) : {q, f} \in EdgeSet(graph)
            /\ \A f \in Range(features) \ RootComponent :
                  \A e \in fe : e[1] # f /\ e[2] # f

\* a search returns with a feature column outside the first column's component,
\* which holds more than the first column
C5_Witness ==
    /\ Returned
    /\ Range(features) \ RootComponent # {}
    /\ Cardinality(RootComponent) >= 3

\* C6: of two searches on one table with thresholds e1 <= e2 whose drafting both
\* complete, the second's drafted edges are among the first's.
C6_DraftMonotoneInEpsilon ==
    (pc = "thicken" /\ Len(runs) = 1) => EdgeSet(graph) \subseteq runs[1]

\* the second drafting completes with fewer edges than the first, but some
C6_Witness ==
    /\ pc = "thicken"
    /\ Len(runs) = 1
    /\ EdgeSet(graph) # {}
    /\ EdgeSet(graph) # runs[1]
    /\ Len(features) = 4

\* C7: the tree search raises nothing when the class node is a column and the root
\* is not supplied or is a column.
C7_OnlyMissingNodesFail ==
    (class_in_data /\ (root_node = NoRoot \/ root_node \in Columns)) => raised = "none"

\* C8: an iteration of try_to_separate_a over a conditioning list of more than one
\* member that does not return leaves a changed list, a no-improvement removal is
\* not adopted, and the test returns.
C8_SeparationAProgresses ==
    sep.fn = "a" =>
        /\ sep.branch = "shrink" => sep.c # sep.prev_c
        /\ sep.branch = "shrink" =>
              /\ Len(sep.c) < Len(sep.prev_c)
              /\ conditional_mutual_info_score(sep.node1, sep.node2, sep.c)
                     < conditional_mutual_info_score(sep.node1, sep.node2, sep.prev_c)
        /\ sep.ret = "none" => sep.iter < MaxIter

\* the intermediate path nodes next to a member of the list n and not in n
PathNeighbors(g, node1, node2, n) ==
    {x \in Range(Intermediates(all_simple_paths(g, node1, node2))) :
        /\ x \notin Range(n)
        /\ \E m \in Range(n) : x \in Range(neighbors(g, m))}

\* C9: the initial conditioning list of try_to_separate_b holds the path-neighbours
\* (the prime list) of the side it is taken from.
C9_PrimeListInInitialC ==
    (sep.fn = "b" /\ sep.iter = 0) =>
        PathNeighbors(graph, sep.node1, sep.node2,
                      IF sep.side = 1 THEN sep.n1 ELSE sep.n2) \subseteq Range(sep.c)

\* a graph is a forest when it has as many edges as nodes less components
IsForest(g) ==
    Cardinality(EdgeSet(g)) =
        Len(g.nodes) - Cardinality({ReachFrom(g, {n}) : n \in Range(g.nodes)})

====
